---- MODULE Spec2Model ----
(***************************************************************************)
(* Model of the three one-shot SQLite migration scripts of EWCSController: *)
(*   migrate_power_save_mode.py  ("psm")  drops ewcs_data.power_save_mode  *)
(*   migrate_cs125_current.py    ("cs")   drops ewcs_data.cs125_current    *)
(*   migrate_images.py           ("img")  moves *.fits rows to oasc_images *)
(* Each process is modelled statement by statement (pc), over a committed  *)
(* database `db` and the connection's uncommitted view `tx`.  Any database *)
(* call inside the try block may raise (action Fault).                     *)
(***************************************************************************)
EXTENDS Integers, Sequences, FiniteSets, TLC

\* ---- bounds -------------------------------------------------------------
MaxRows == 2
MaxImages == 2
MaxRuns == 2

\* ---- helpers ------------------------------------------------------------
Range(s) == {s[i] : i \in 1..Len(s)}

IndexOf(s, x) == CHOOSE i \in 1..Len(s) : s[i] = x

SetMax(S) == IF S = {} THEN 0 ELSE CHOOSE x \in S : \A y \in S : y <= x

\* ---- schemas ------------------------------------------------------------
Scripts == {"psm", "cs", "img"}
DropScripts == {"psm", "cs"}

ColumnToRemove(m) == IF m = "psm" THEN "power_save_mode" ELSE "cs125_current"

TailCols ==
  << "cs125_visibility", "cs125_synop", "cs125_temp", "cs125_humidity",
     "sht45_temp", "sht45_humidity", "rpi_temp",
     "chan1_current", "chan2_current", "chan3_current", "chan4_current",
     "pv_vol", "pv_cur", "load_vol", "load_cur", "bat_temp", "dev_temp",
     "charg_equip_stat", "dischg_equip_stat", "created_at" >>

\* column list of CREATE TABLE ewcs_data_new
CreateCols_keeps(m) == <<"id", "timestamp", "station_name", "power_save_mode">> \o TailCols
CreateCols(m) ==
  IF m = "psm"
    THEN <<"id", "timestamp", "station_name">> \o TailCols
    ELSE <<"id", "timestamp", "station_name", "power_save_mode">> \o TailCols

\* column list of INSERT INTO ewcs_data_new ( ... )
InsertCols(m) ==
  IF m = "psm"
    THEN <<"id", "timestamp", "station_name">> \o TailCols
    ELSE <<"id", "timestamp", "station_name", "power_save_mode">> \o TailCols

\* column list of SELECT ... FROM ewcs_data
SelectCols(m) ==
  IF m = "psm"
    THEN <<"id", "timestamp", "station_name">> \o TailCols
    ELSE <<"id", "timestamp", "station_name", "power_save_mode">> \o TailCols

\* DEFAULT clauses of CREATE TABLE ewcs_data_new (NULL when none is declared)
Default(c) ==
  IF c = "power_save_mode" THEN "normal"
  ELSE IF c = "created_at" THEN "CURRENT_TIMESTAMP"
  ELSE "NULL"

IndexName == "idx_ewcs_data_timestamp"
TimestampIndex == [name |-> IndexName, tbl |-> "ewcs_data", col |-> "timestamp"]

\* ---- initial databases --------------------------------------------------
\* schemas ewcs_data has had over the life of the application
BaseSchema == <<"id", "timestamp", "station_name">> \o TailCols
PsmSchema == <<"id", "timestamp", "station_name", "power_save_mode">> \o TailCols
CsSchema ==
  <<"id", "timestamp", "station_name">> \o SubSeq(TailCols, 1, 7)
     \o <<"cs125_current">> \o SubSeq(TailCols, 8, Len(TailCols))
FullSchema ==
  <<"id", "timestamp", "station_name", "power_save_mode">> \o SubSeq(TailCols, 1, 7)
     \o <<"cs125_current">> \o SubSeq(TailCols, 8, Len(TailCols))
Schemas == {BaseSchema, PsmSchema, CsSchema, FullSchema}

\* the value stored in row i, column c: distinct per column and per row
Val(i, c) ==
  IF c = "id" THEN i
  ELSE IF c = "power_save_mode" THEN (IF i % 2 = 1 THEN "save" ELSE "normal")
  ELSE 100 * i + IndexOf(FullSchema, c)

DataRow(cols, i) == [c \in Range(cols) |-> Val(i, c)]
DataTable(cols, n) == [cols |-> cols, rows |-> [i \in 1..n |-> DataRow(cols, i)]]

ImgCols == <<"id", "timestamp", "filename", "created_at">>
FitsLower == <<"a", ".", "f", "i", "t", "s">>
FitsUpper == <<"b", ".", "F", "I", "T", "S">>
Jpeg == <<"c", ".", "j", "p", "g">>
FileNames == <<FitsLower, FitsUpper, Jpeg>>

ImgRow(i, f) == [id |-> i, timestamp |-> 1000 + i, filename |-> f, created_at |-> 2000 + i]
\* the files kept of FileNames, in order, numbered from 1
ImgRows(keep) ==
  LET picked == SelectSeq(<<1, 2, 3>>, LAMBDA k : k \in keep)
  IN  [i \in 1..Len(picked) |-> ImgRow(i, FileNames[picked[i]])]

OascSeed == <<[id |-> 7, timestamp |-> 1, filename |-> <<"z", ".", "f", "i", "t", "s">>, created_at |-> 2]>>

MkDb(data, idx, imgs) ==
  [tables  |-> [t \in {"ewcs_data", "ewcs_images", "oasc_images"} |->
                  IF t = "ewcs_data" THEN data
                  ELSE IF t = "ewcs_images" THEN [cols |-> ImgCols, rows |-> imgs]
                  ELSE [cols |-> ImgCols, rows |-> OascSeed]],
   indexes |-> IF idx THEN {TimestampIndex} ELSE {}]

\* a database file just created by sqlite3.connect: no tables at all
EmptyDb == [tables |-> <<>>, indexes |-> {}]

InitDbs ==
  {MkDb(DataTable(s, n), idx, <<>>) : s \in Schemas, n \in 0..MaxRows, idx \in BOOLEAN}
  \cup {MkDb(DataTable(BaseSchema, 1), TRUE, ImgRows(k)) :
          k \in {K \in SUBSET {1, 2, 3} : Cardinality(K) <= MaxImages}}
  \cup {EmptyDb}

\* ---- SQL ----------------------------------------------------------------
HasTable(d, t) == t \in DOMAIN d.tables

\* PRAGMA table_info(t): the column names, none for a table that is missing
TableInfo(d, t) == IF HasTable(d, t) THEN d.tables[t].cols ELSE <<>>

PutTable(d, t, v) ==
  [d EXCEPT !.tables = [x \in (DOMAIN d.tables) \cup {t} |->
                          IF x = t THEN v ELSE d.tables[x]]]

\* CREATE TABLE ewcs_data_new ( ... )
CreateTableOk(d, t) == ~HasTable(d, t)
CreateTable(d, t, cols) == PutTable(d, t, [cols |-> cols, rows |-> <<>>])

\* INSERT INTO dst (ins) SELECT sel FROM src
InsertSelectOk(d, dst, ins, src, sel) ==
  /\ HasTable(d, dst) /\ HasTable(d, src)
  /\ Range(sel) \subseteq Range(d.tables[src].cols)
  /\ Range(ins) \subseteq Range(d.tables[dst].cols)

InsertSelect(d, dst, ins, src, sel) ==
  LET dcols == d.tables[dst].cols
      srows == d.tables[src].rows
      conv(r) == [c \in Range(dcols) |->
                    IF c \in Range(ins) THEN r[sel[IndexOf(ins, c)]] ELSE Default(c)]
  IN  PutTable(d, dst, [cols |-> dcols,
                         rows |-> d.tables[dst].rows \o [i \in 1..Len(srows) |-> conv(srows[i])]])

\* DROP TABLE t: the table goes, and every index on it
DropTable(d, t) ==
  [tables  |-> [x \in (DOMAIN d.tables) \ {t} |-> d.tables[x]],
   indexes |-> {ix \in d.indexes : ix.tbl # t}]

\* ALTER TABLE a RENAME TO b
RenameOk(d, a, b) == HasTable(d, a) /\ ~HasTable(d, b)
RenameTable(d, a, b) ==
  [tables  |-> [x \in ((DOMAIN d.tables) \ {a}) \cup {b} |->
                  IF x = b THEN d.tables[a] ELSE d.tables[x]],
   indexes |-> {[ix EXCEPT !.tbl = IF ix.tbl = a THEN b ELSE ix.tbl] : ix \in d.indexes}]

\* CREATE INDEX IF NOT EXISTS name ON t(col): index names are database-wide
CreateIndexIfNotExists_skip(d, name, t, col) == d
CreateIndexIfNotExists(d, name, t, col) ==
  IF \E ix \in d.indexes : ix.name = name THEN d
  ELSE [d EXCEPT !.indexes = @ \cup {[name |-> name, tbl |-> t, col |-> col]}]

\* filename LIKE '%.fits': LIKE folds ASCII case
Lower(ch) ==
  IF ch = "F" THEN "f" ELSE IF ch = "I" THEN "i" ELSE IF ch = "T" THEN "t"
  ELSE IF ch = "S" THEN "s" ELSE ch
Suffix == <<".", "f", "i", "t", "s">>
LikeFits(f) ==
  /\ Len(f) >= Len(Suffix)
  /\ \A i \in 1..Len(Suffix) : Lower(f[Len(f) - Len(Suffix) + i]) = Lower(Suffix[i])

\* SELECT COUNT(*) FROM ewcs_images WHERE filename LIKE '%.fits'
CountFits(d) == Len(SelectSeq(d.tables["ewcs_images"].rows, LAMBDA r : LikeFits(r.filename)))

\* INSERT INTO oasc_images (timestamp, filename, created_at) SELECT ... WHERE LIKE
InsertFitsRows(d) ==
  LET src == SelectSeq(d.tables["ewcs_images"].rows, LAMBDA r : LikeFits(r.filename))
      old == d.tables["oasc_images"].rows
      top == SetMax({old[i].id : i \in 1..Len(old)})
  IN  PutTable(d, "oasc_images",
        [cols |-> ImgCols,
         rows |-> old \o [i \in 1..Len(src) |->
                    [id |-> top + i, timestamp |-> src[i].timestamp,
                     filename |-> src[i].filename, created_at |-> src[i].created_at]]])

\* DELETE FROM ewcs_images WHERE filename LIKE '%.fits'
DeleteFitsRows(d) ==
  PutTable(d, "ewcs_images",
    [cols |-> ImgCols,
     rows |-> SelectSeq(d.tables["ewcs_images"].rows, LAMBDA r : ~LikeFits(r.filename))])

\* ---- state --------------------------------------------------------------
VARIABLES
  db,             \* the committed content of data/ewcs.db
  tx,             \* what the connection sees (db plus uncommitted changes)
  inTx,           \* conn.in_transaction
  conn,           \* the local `conn`: "unbound", "open" or "closed"
  pc,             \* position of the running process
  script,         \* which script the process runs
  column_names,   \* local of the column-drop scripts
  rows_migrated,  \* local of the column-drop scripts (0 until the copy)
  fits_count,     \* local of migrate_images
  migrated,       \* local of migrate_images
  deleted,        \* local of migrate_images
  result,         \* "none", "True", "False", or "raised" (exception left the function)
  exitCode,       \* process exit status, -1 while running
  obs,            \* observations about the current run (history)
  log             \* the completed calls of a migration function (history)

locals == <<column_names, rows_migrated, fits_count, migrated, deleted>>
vars == <<db, tx, inTx, conn, pc, script, column_names, rows_migrated,
          fits_count, migrated, deleted, result, exitCode, obs, log>>

NoObs(d) ==
  [dbPre |-> d, branch |-> "none", errAt |-> "none", faulted |-> FALSE,
   txBegun |-> FALSE, inspectInTx |-> FALSE, mutated |-> FALSE,
   committed |-> FALSE, rollbackCalled |-> FALSE, cancelled |-> FALSE,
   db0 |-> d]

Init ==
  /\ db \in InitDbs
  /\ tx = db
  /\ inTx = FALSE
  /\ conn = "unbound"
  /\ pc = "idle"
  /\ script = "psm"
  /\ column_names = <<>>
  /\ rows_migrated = 0
  /\ fits_count = 0
  /\ migrated = 0
  /\ deleted = 0
  /\ result = "none"
  /\ exitCode = -1
  /\ obs = NoObs(db)
  /\ log = <<>>

\* ---- control flow -------------------------------------------------------
\* the statements of the try block, in program order
StepsOf_inspectFirst(m) ==
  IF m \in DropScripts
    THEN <<"connect", "inspect", "begin", "branch", "create", "copy", "drop",
           "rename", "index", "commit", "verify", "close">>
    ELSE <<"connect", "inspect", "begin", "branch", "insert", "delete",
           "commit", "verify", "close">>
StepsOf(m) ==
  IF m \in DropScripts
    THEN <<"connect", "begin", "inspect", "branch", "create", "copy", "drop",
           "rename", "index", "commit", "verify", "close">>
    ELSE <<"connect", "begin", "inspect", "branch", "insert", "delete",
           "commit", "verify", "close">>

Succ(m, p) == StepsOf(m)[IndexOf(StepsOf(m), p) + 1]

\* database calls, each of which may raise
FaultPoints == {"connect", "begin", "inspect", "create", "copy", "drop", "rename",
                "index", "insert", "delete", "commit", "verify"}

Raise(p) ==
  /\ pc' = "except"
  /\ obs' = [obs EXCEPT !.errAt = p]

\* ---- the __main__ block -------------------------------------------------
\* argv_y: sys.argv[1] == '-y';  response: what the operator types
Main(m, argv_y, response) ==
  /\ pc \in {"idle", "exited"}
  /\ Len(log) + (IF obs.cancelled THEN 1 ELSE 0) < MaxRuns
  /\ script' = m
  /\ conn' = "unbound"
  /\ column_names' = <<>>
  /\ rows_migrated' = 0
  /\ fits_count' = 0
  /\ migrated' = 0
  /\ deleted' = 0
  /\ result' = "none"
  /\ LET auto_confirm == m = "psm" /\ argv_y
         go == auto_confirm \/ response = "y"
     IN  /\ pc' = IF go THEN "connect" ELSE "exited"
         /\ exitCode' = IF go THEN -1 ELSE 0
         /\ obs' = [NoObs(db) EXCEPT !.cancelled = ~go, !.db0 = obs.db0]
  /\ UNCHANGED <<db, tx, inTx, log>>

\* ---- the migration functions -------------------------------------------
\* conn = sqlite3.connect('data/ewcs.db'); cursor = conn.cursor()
Connect ==
  /\ pc = "connect"
  /\ conn' = "open"
  /\ tx' = db
  /\ pc' = Succ(script, "connect")
  /\ UNCHANGED <<db, inTx, script, locals, result, exitCode, obs, log>>

\* conn.execute('BEGIN TRANSACTION')
Begin ==
  /\ pc = "begin"
  /\ inTx' = TRUE
  /\ tx' = db
  /\ obs' = [obs EXCEPT !.txBegun = TRUE]
  /\ pc' = Succ(script, "begin")
  /\ UNCHANGED <<db, conn, script, locals, result, exitCode, log>>

\* PRAGMA table_info(ewcs_data); column_names = [col[1] for col in columns]
Inspect ==
  /\ pc = "inspect" /\ script \in DropScripts
  /\ column_names' = TableInfo(tx, "ewcs_data")
  /\ obs' = [obs EXCEPT !.inspectInTx = inTx]
  /\ pc' = Succ(script, "inspect")
  /\ UNCHANGED <<db, tx, inTx, conn, script, rows_migrated, fits_count,
                 migrated, deleted, result, exitCode, log>>

\* the two SELECT COUNT(*) of migrate_images
InspectImages ==
  /\ pc = "inspect" /\ script = "img"
  /\ IF HasTable(tx, "ewcs_images") /\ HasTable(tx, "oasc_images")
       THEN /\ fits_count' = CountFits(tx)
            /\ obs' = [obs EXCEPT !.inspectInTx = inTx]
            /\ pc' = Succ(script, "inspect")
       ELSE /\ Raise("inspect")
            /\ UNCHANGED fits_count
  /\ UNCHANGED <<db, tx, inTx, conn, script, column_names, rows_migrated,
                 migrated, deleted, result, exitCode, log>>

\* if 'power_save_mode' in column_names / if fits_count > 0
ColumnPresent_always(m, names, count) == TRUE
ColumnPresent(m, names, count) ==
  IF m \in DropScripts THEN ColumnToRemove(m) \in Range(names) ELSE count > 0

Branch ==
  /\ pc = "branch"
  /\ IF ColumnPresent(script, column_names, fits_count)
       THEN /\ pc' = Succ(script, "branch")
            /\ obs' = [obs EXCEPT !.branch = "present"]
       ELSE /\ pc' = "close"
            /\ obs' = [obs EXCEPT !.branch = "absent"]
  /\ UNCHANGED <<db, tx, inTx, conn, script, locals, result, exitCode, log>>

\* CREATE TABLE ewcs_data_new ( ... )
CreateNew ==
  /\ pc = "create"
  /\ IF CreateTableOk(tx, "ewcs_data_new")
       THEN /\ tx' = CreateTable(tx, "ewcs_data_new", CreateCols(script))
            /\ obs' = [obs EXCEPT !.mutated = TRUE]
            /\ pc' = Succ(script, "create")
       ELSE /\ Raise("create")
            /\ UNCHANGED tx
  /\ UNCHANGED <<db, inTx, conn, script, locals, result, exitCode, log>>

\* INSERT INTO ewcs_data_new ( ... ) SELECT ... FROM ewcs_data; rows_migrated = cursor.rowcount
Copy ==
  /\ pc = "copy"
  /\ IF InsertSelectOk(tx, "ewcs_data_new", InsertCols(script), "ewcs_data", SelectCols(script))
       THEN /\ tx' = InsertSelect(tx, "ewcs_data_new", InsertCols(script),
                                  "ewcs_data", SelectCols(script))
            /\ rows_migrated' = Len(tx.tables["ewcs_data"].rows)
            /\ pc' = Succ(script, "copy")
            /\ UNCHANGED obs
       ELSE /\ Raise("copy")
            /\ UNCHANGED <<tx, rows_migrated>>
  /\ UNCHANGED <<db, inTx, conn, script, column_names, fits_count, migrated,
                 deleted, result, exitCode, log>>

\* DROP TABLE ewcs_data
Drop ==
  /\ pc = "drop"
  /\ tx' = DropTable(tx, "ewcs_data")
  /\ pc' = Succ(script, "drop")
  /\ UNCHANGED <<db, inTx, conn, script, locals, result, exitCode, obs, log>>

\* ALTER TABLE ewcs_data_new RENAME TO ewcs_data
Rename ==
  /\ pc = "rename"
  /\ IF RenameOk(tx, "ewcs_data_new", "ewcs_data")
       THEN /\ tx' = RenameTable(tx, "ewcs_data_new", "ewcs_data")
            /\ pc' = Succ(script, "rename")
            /\ UNCHANGED obs
       ELSE /\ Raise("rename")
            /\ UNCHANGED tx
  /\ UNCHANGED <<db, inTx, conn, script, locals, result, exitCode, log>>

\* CREATE INDEX IF NOT EXISTS idx_ewcs_data_timestamp ON ewcs_data(timestamp)
RecreateIndex ==
  /\ pc = "index"
  /\ tx' = CreateIndexIfNotExists(tx, IndexName, "ewcs_data", "timestamp")
  /\ pc' = Succ(script, "index")
  /\ UNCHANGED <<db, inTx, conn, script, locals, result, exitCode, obs, log>>

\* INSERT INTO oasc_images ... SELECT ... WHERE filename LIKE '%.fits'; migrated = cursor.rowcount
InsertFits ==
  /\ pc = "insert"
  /\ tx' = InsertFitsRows(tx)
  /\ migrated' = CountFits(tx)
  /\ obs' = [obs EXCEPT !.mutated = TRUE]
  /\ pc' = Succ(script, "insert")
  /\ UNCHANGED <<db, inTx, conn, script, column_names, rows_migrated, fits_count,
                 deleted, result, exitCode, log>>

\* DELETE FROM ewcs_images WHERE filename LIKE '%.fits'; deleted = cursor.rowcount
DeleteFits ==
  /\ pc = "delete"
  /\ tx' = DeleteFitsRows(tx)
  /\ deleted' = CountFits(tx)
  /\ pc' = Succ(script, "delete")
  /\ UNCHANGED <<db, inTx, conn, script, column_names, rows_migrated, fits_count,
                 migrated, result, exitCode, obs, log>>

\* conn.commit()
Commit ==
  /\ pc = "commit"
  /\ db' = IF inTx THEN tx ELSE db
  /\ tx' = db'
  /\ inTx' = FALSE
  /\ obs' = [obs EXCEPT !.committed = TRUE]
  /\ pc' = Succ(script, "commit")
  /\ UNCHANGED <<conn, script, locals, result, exitCode, log>>

\* the "Verify final state" queries, after the commit, inside the try block
Verify ==
  /\ pc = "verify"
  /\ pc' = Succ(script, "verify")
  /\ UNCHANGED <<db, tx, inTx, conn, script, locals, result, exitCode, obs, log>>

\* conn.close(); return True   (closing discards a transaction left open)
Close ==
  /\ pc = "close"
  /\ conn' = "closed"
  /\ inTx' = FALSE
  /\ tx' = db
  /\ result' = "True"
  /\ pc' = "return"
  /\ UNCHANGED <<db, script, locals, exitCode, obs, log>>

\* a database call raises (file cannot be opened, database locked, I/O error)
Fault ==
  /\ pc \in FaultPoints
  /\ pc' = "except"
  /\ obs' = [obs EXCEPT !.errAt = pc, !.faulted = TRUE]
  /\ UNCHANGED <<db, tx, inTx, conn, script, locals, result, exitCode, log>>

\* except Exception as e: print; if conn: conn.rollback(); conn.close(); return False
\* (when connect raised, `conn` was never bound and `if conn` raises UnboundLocalError)
Except_commits ==
  /\ pc = "except"
  /\ IF conn = "unbound"
       THEN /\ result' = "raised"
            /\ UNCHANGED <<db, tx, inTx, conn, obs>>
       ELSE /\ db' = IF inTx THEN tx ELSE db
            /\ tx' = db'
            /\ inTx' = FALSE
            /\ conn' = "closed"
            /\ result' = "False"
            /\ obs' = [obs EXCEPT !.rollbackCalled = TRUE]
  /\ pc' = "return"
  /\ UNCHANGED <<script, locals, exitCode, log>>
Except ==
  /\ pc = "except"
  /\ IF conn = "unbound"
       THEN /\ result' = "raised"
            /\ UNCHANGED <<db, tx, inTx, conn, obs>>
       ELSE /\ tx' = db
            /\ inTx' = FALSE
            /\ conn' = "closed"
            /\ result' = "False"
            /\ obs' = [obs EXCEPT !.rollbackCalled = TRUE]
            /\ UNCHANGED db
  /\ pc' = "return"
  /\ UNCHANGED <<script, locals, exitCode, log>>

\* sys.exit(0) if the function returned True, sys.exit(1) if False;
\* an exception that left the function ends the interpreter with status 1
Exit ==
  /\ pc = "return"
  /\ exitCode' = IF result = "True" THEN 0 ELSE 1
  /\ log' = Append(log, [script |-> script, result |-> result, branch |-> obs.branch,
                         faulted |-> obs.faulted])
  /\ pc' = "exited"
  /\ UNCHANGED <<db, tx, inTx, conn, script, locals, result, obs>>

Next ==
  \/ \E m \in Scripts, argv_y \in BOOLEAN, response \in {"y", "n"} : Main(m, argv_y, response)
  \/ Connect
  \/ Begin
  \/ Inspect
  \/ InspectImages
  \/ Branch
  \/ CreateNew
  \/ Copy
  \/ Drop
  \/ Rename
  \/ RecreateIndex
  \/ InsertFits
  \/ DeleteFits
  \/ Commit
  \/ Verify
  \/ Close
  \/ Fault
  \/ Except
  \/ Exit

Spec == Init /\ [][Next]_vars

TypeOK ==
  /\ pc \in {"idle", "connect", "begin", "inspect", "branch", "create", "copy", "drop",
             "rename", "index", "insert", "delete", "commit", "verify", "close",
             "except", "return", "exited"}
  /\ result \in {"none", "True", "False", "raised"}
  /\ exitCode \in {-1, 0, 1}

\* ---- vocabulary of the properties --------------------------------------
Returned == pc \in {"return", "exited"} /\ ~obs.cancelled
PreCols == TableInfo(obs.dbPre, "ewcs_data")
ColumnWasPresent == ColumnToRemove(script) \in Range(PreCols)
RemoveCol(cols, c) == SelectSeq(cols, LAMBDA x : x # c)
Restrict(r, S) == [c \in S |-> r[c]]
EndsWithFits(f) ==
  /\ Len(f) >= Len(Suffix)
  /\ \A i \in 1..Len(Suffix) : f[Len(f) - Len(Suffix) + i] = Suffix[i]
Payload(r) == <<r.timestamp, r.filename, r.created_at>>

\* C1 (as claimed): for every starting schema that contains the column to
\* remove, a successful run leaves exactly the starting columns minus that
\* column, in the same order, with the same number of rows and every
\* remaining value of every row unchanged.
C1_AsClaimed ==
  (pc = "exited" /\ script \in DropScripts /\ result = "True" /\ ColumnWasPresent) =>
     LET pre == obs.dbPre.tables["ewcs_data"]
         c   == ColumnToRemove(script)
     IN  /\ HasTable(db, "ewcs_data")
         /\ db.tables["ewcs_data"].cols = RemoveCol(pre.cols, c)
         /\ Len(db.tables["ewcs_data"].rows) = Len(pre.rows)
         /\ \A i \in 1..Len(pre.rows) :
              db.tables["ewcs_data"].rows[i] = Restrict(pre.rows[i], Range(pre.cols) \ {c})

\* C2: when create, copy, drop, rename or index creation fails, the function
\* returns False, ewcs_data has the schema and rows it had before the call,
\* and no ewcs_data_new table exists.
C2_RollbackOnFailure ==
  (Returned /\ script \in DropScripts
     /\ obs.errAt \in {"create", "copy", "drop", "rename", "index"}) =>
     /\ result = "False"
     /\ db = obs.dbPre
     /\ tx = db /\ ~inTx
     /\ ~HasTable(db, "ewcs_data_new")

\* the copy of migrate_cs125_current failed (no power_save_mode to select)
\* after ewcs_data_new had been created, on a table that holds rows
C2_Witness ==
  /\ pc = "exited" /\ script = "cs" /\ obs.errAt = "copy" /\ obs.mutated
  /\ result = "False"
  /\ HasTable(db, "ewcs_data") /\ Len(db.tables["ewcs_data"].rows) > 0

\* C3 (as claimed): whenever a column-drop function returns False, also when
\* the failure arose in the verification after the commit, the database is
\* as it was before the call, and a failing verification triggers no rollback.
C3_AsClaimed ==
  (Returned /\ script \in DropScripts /\ result = "False") =>
     /\ db = obs.dbPre
     /\ (obs.errAt = "verify" => ~obs.rollbackCalled)

\* C4: a call of a column-drop function that directly follows a successful
\* call of the same function changes nothing: it executes no mutating
\* statement, leaves the database as the first call left it and, unless a
\* database call raises, takes the "nothing to migrate" path and returns True.
C4_Idempotent ==
  (pc = "exited" /\ ~obs.cancelled /\ script \in DropScripts /\ Len(log) >= 2
     /\ log[Len(log) - 1].script = script /\ log[Len(log) - 1].result = "True") =>
     /\ db = obs.dbPre
     /\ ~obs.mutated
     /\ rows_migrated = 0
     /\ (~obs.faulted => result = "True" /\ obs.branch = "absent")

\* the first call really removed the column from a table holding rows
C4_Witness ==
  /\ pc = "exited" /\ ~obs.cancelled /\ script \in DropScripts /\ Len(log) >= 2
  /\ log[Len(log) - 1].script = script /\ log[Len(log) - 1].result = "True"
  /\ log[Len(log) - 1].branch = "present"
  /\ result = "True" /\ obs.branch = "absent"
  /\ Len(db.tables["ewcs_data"].rows) > 0

\* C5: when the column to remove is absent from ewcs_data at the call, no row
\* is migrated, no mutating statement runs, no ewcs_data_new is created, the
\* database (schema, rows, indexes) stays as it was, and the function returns
\* True unless a database call raised.
C5_NoOpWhenAbsent ==
  (Returned /\ script \in DropScripts /\ ~ColumnWasPresent) =>
     /\ rows_migrated = 0
     /\ ~obs.mutated
     /\ db = obs.dbPre
     /\ tx = db
     /\ ~HasTable(db, "ewcs_data_new")
     /\ (~obs.faulted => result = "True" /\ obs.branch = "absent")
     /\ (~obs.faulted /\ pc = "exited" => exitCode = 0)

C5_Witness ==
  /\ pc = "exited" /\ script \in DropScripts /\ ~obs.cancelled /\ ~ColumnWasPresent
  /\ obs.branch = "absent" /\ result = "True"
  /\ HasTable(db, "ewcs_data") /\ Len(db.tables["ewcs_data"].rows) > 0
  /\ db.indexes # {}

\* C6 (as claimed): introspection happens before any transaction is begun,
\* and a run on the absent path returns without having started a transaction.
C6_AsClaimed ==
  /\ (pc = "inspect" => ~inTx)
  /\ (Returned /\ obs.branch = "absent" => ~obs.txBegun)

\* C6 (amended): the transaction is begun before the introspection, which
\* runs inside it; a run on the absent path returns True having begun a
\* transaction that it never commits and in which nothing was changed.
C6_BeginBeforeInspect ==
  /\ (pc = "inspect" => inTx /\ tx = db)
  /\ (Returned /\ obs.branch = "absent" =>
        /\ obs.txBegun /\ obs.inspectInTx
        /\ ~obs.committed /\ ~obs.mutated /\ ~obs.rollbackCalled
        /\ ~inTx /\ db = obs.dbPre
        /\ result = "True")

C6_Witness ==
  /\ pc = "exited" /\ ~obs.cancelled /\ obs.branch = "absent"
  /\ script \in DropScripts /\ HasTable(db, "ewcs_data")
  /\ obs.txBegun /\ result = "True"

\* C7 (as claimed): when sqlite3.connect fails the function returns False
\* without attempting a rollback and the process exits 1; the process exits
\* 0 exactly on success or cancellation, and 1 when the function returned False.
C7_AsClaimed ==
  pc = "exited" =>
     /\ (obs.errAt = "connect" =>
           result = "False" /\ ~obs.rollbackCalled /\ exitCode = 1)
     /\ (exitCode = 0 <=> (obs.cancelled \/ result = "True"))
     /\ (result = "False" => exitCode = 1)

\* C8 (as claimed): after a successful migrate_images no filename of
\* ewcs_images ends in .fits, oasc_images has gained one row (same timestamp,
\* filename, created_at) per matching row, as many rows were inserted as
\* deleted, and the other rows of ewcs_images are untouched; after a run
\* that returns False both tables hold the rows they held before.
C8_AsClaimed ==
  (pc = "exited" /\ script = "img" /\ ~obs.cancelled) =>
     /\ result = "True" =>
          LET preE == obs.dbPre.tables["ewcs_images"].rows
              preO == obs.dbPre.tables["oasc_images"].rows
              nowE == db.tables["ewcs_images"].rows
              nowO == db.tables["oasc_images"].rows
              hit  == SelectSeq(preE, LAMBDA r : LikeFits(r.filename))
          IN  /\ \A i \in 1..Len(nowE) : ~EndsWithFits(nowE[i].filename)
              /\ Len(nowO) = Len(preO) + Len(hit)
              /\ SubSeq(nowO, 1, Len(preO)) = preO
              /\ \A i \in 1..Len(hit) : Payload(nowO[Len(preO) + i]) = Payload(hit[i])
              /\ migrated = deleted
              /\ nowE = SelectSeq(preE, LAMBDA r : ~LikeFits(r.filename))
     /\ result = "False" => db = obs.dbPre

\* C9 (as claimed): after every column-drop run that returns True the index
\* idx_ewcs_data_timestamp exists on ewcs_data(timestamp).
C9_AsClaimed ==
  (pc = "exited" /\ script \in DropScripts /\ result = "True") =>
     TimestampIndex \in db.indexes

\* C9 (amended): after every column-drop run that found the column present
\* and returns True, idx_ewcs_data_timestamp exists on ewcs_data(timestamp),
\* whether or not it existed before; no index of that name exists between
\* the drop and the index statement, and it exists, uncommitted, before the
\* commit.
C9_IndexRecreated ==
  script \in DropScripts =>
     /\ (pc = "exited" /\ result = "True" /\ ColumnWasPresent =>
           HasTable(db, "ewcs_data") /\ TimestampIndex \in db.indexes)
     /\ (pc \in {"rename", "index"} => \A ix \in tx.indexes : ix.name # IndexName)
     /\ (pc = "commit" =>
           /\ TimestampIndex \in tx.indexes
           /\ HasTable(tx, "ewcs_data") /\ ~HasTable(tx, "ewcs_data_new")
           /\ db = obs.dbPre)

\* a successful drop on a table that had no such index before
C9_Witness ==
  /\ pc = "exited" /\ script \in DropScripts /\ result = "True"
  /\ obs.branch = "present"
  /\ TimestampIndex \notin obs.dbPre.indexes
  /\ TimestampIndex \in db.indexes
  /\ Len(db.tables["ewcs_data"].rows) > 0

\* C10 (as claimed): from a table with both columns, the two column-drop
\* scripts succeed in either order and end in the same state (the table
\* without the two columns, all other values kept), and each run removes
\* only the column it is named for.
BothPresentAtStart ==
  {"power_save_mode", "cs125_current"} \subseteq Range(TableInfo(obs.db0, "ewcs_data"))
Succeeded(m) == \E i \in 1..Len(log) : log[i].script = m /\ log[i].result = "True"
C10_AsClaimed ==
  (pc = "exited" /\ BothPresentAtStart) =>
     /\ \A i \in 1..Len(log) :
          (log[i].script \in DropScripts /\ ~log[i].faulted) => log[i].result = "True"
     /\ (Succeeded("psm") /\ Succeeded("cs")) =>
          LET pre == obs.db0.tables["ewcs_data"]
              now == db.tables["ewcs_data"]
              keep == Range(pre.cols) \ {"power_save_mode", "cs125_current"}
          IN  /\ now.cols = RemoveCol(RemoveCol(pre.cols, "power_save_mode"), "cs125_current")
              /\ now.rows = [i \in 1..Len(pre.rows) |-> Restrict(pre.rows[i], keep)]
     /\ (~obs.cancelled /\ script \in DropScripts /\ result = "True" /\ ColumnWasPresent) =>
          Range(TableInfo(db, "ewcs_data")) = Range(PreCols) \ {ColumnToRemove(script)}
====
